---- MODULE Spec2Model ----
(***************************************************************************)
(* A model of src/app.py, the Streamlit dashboard script.  One run of the  *)
(* script is a sequence of sections executed top to bottom; every section  *)
(* reads its sidebar widgets, transforms the pandas table global_df and    *)
(* hands a chart to the renderer.  A widget change makes Streamlit run the *)
(* script again from its first line in a fresh namespace.                  *)
(*                                                                         *)
(* A DataFrame is a record [columns, rows]: columns is the list of column  *)
(* names, rows the list of rows, each row a function from column names     *)
(* (and "idx", the row's index label) to values.  The columns              *)
(* Province/State and Combined_Key are carried by the script and read by   *)
(* no computation; the model leaves them out, and so two rows of one       *)
(* country at one date stand for two provinces of that country.            *)
(* Dates are day numbers.  Line 6 of the script (os.environ) is taken to   *)
(* succeed; the model starts at the load of line 9.                        *)
(***************************************************************************)
EXTENDS Integers, Sequences, FiniteSets, TLC

\* ---------------------------------------------------------------- bounds
MaxRows == 3
MaxDate == 2
MaxSlider == 6

\* ------------------------------------------------------ program constants
SliderMin == 5

Metrics == {"cases", "deaths", "recovered"}
TopMetrics == {"cases", "deaths"}

\* Country names in string order: pandas sorts group keys and sort keys by it.
CountryNames == <<"A", "B", "C", "D", "E", "F", "G", "H">>
Dates == 1..MaxDate
SliderValues == SliderMin..MaxSlider

NoDate == 0
NoFig == [kind |-> "none"]
NoFrame == [columns |-> <<>>, rows |-> <<>>]

VARIABLES
  src,          \* the table the data provider returns (cod.get_data_jhu)
  pc,           \* the section of the script that runs next
  global_df,    \* the DataFrame global_df
  start_date,   \* the sidebar's start date
  end_date,     \* the sidebar's end date
  sidebar_error,\* whether st.sidebar.error has shown its message in this run
  case_type,    \* the sidebar's case type
  filtered_df,  \* the DataFrame filtered_df
  daily_metric, \* the variable daily_metric (assigned at lines 145 and 175)
  fig           \* the chart handed to the renderer last

vars == <<src, pc, global_df, start_date, end_date, sidebar_error, case_type,
          filtered_df, daily_metric, fig>>

\* ---------------------------------------------------------------- helpers
Range(s) == {s[i] : i \in 1..Len(s)}

Rank(c) == CHOOSE i \in 1..Len(CountryNames) : CountryNames[i] = c

Min2(a, b) == IF a <= b THEN a ELSE b

\* Op applied to the value of v (v is evaluated once).
Bind(v, Op(_)) == CHOOSE y \in {Op(x) : x \in {v}} : TRUE

\* The elements of a finite set of integers, ascending.
SortedSeq(S) ==
  [k \in 1..Cardinality(S) |->
     CHOOSE x \in S : Cardinality({y \in S : y < x}) = k - 1]

\* The country names of a set, in string order.
SortedCountries(S) ==
  [k \in 1..Cardinality(S) |->
     CHOOSE c \in S : Cardinality({d \in S : Rank(d) < Rank(c)}) = k - 1]

RECURSIVE SumCol(_, _)
SumCol(rows, col) ==
  IF rows = <<>> THEN 0 ELSE rows[1][col] + SumCol(Tail(rows), col)

\* HeadN keeping every entry.
HeadAll(s, n) == s

\* The first n entries (DataFrame.head).
HeadN(s, n) == SubSeq(s, 1, Min2(n, Len(s)))

\* Boolean-mask selection df[mask]: the rows whose position is in keep, in
\* their order, with their index labels and all their columns.
MaskRows(df, keep) ==
  Bind(SortedSeq(keep), LAMBDA pos :
    [columns |-> df.columns,
     rows |-> [k \in 1..Len(pos) |-> df.rows[pos[k]]]])

\* Series.max() of the date column.
DateMax(df) ==
  CHOOSE d \in {df.rows[i]["date"] : i \in 1..Len(df.rows)} :
    \A i \in 1..Len(df.rows) : df.rows[i]["date"] <= d

\* Series.unique() of the country column, as the set of options of a selectbox.
CountryOptions(df) == {df.rows[i]["Country/Region"] : i \in 1..Len(df.rows)}

\* ------------------------------------------------------------ aggregation
\* FilterByDateRange with the end date left out of the range.
FilterBeforeEnd(df, start, end) ==
  MaskRows(df, {i \in 1..Len(df.rows) :
                  df.rows[i]["date"] >= start /\ df.rows[i]["date"] < end})

\* global_df[(date >= start) & (date <= end)]
FilterByDateRange(df, start, end) ==
  MaskRows(df, {i \in 1..Len(df.rows) :
                  df.rows[i]["date"] >= start /\ df.rows[i]["date"] <= end})

\* df.groupby("date")[col].sum().reset_index(): one entry per date present,
\* dates ascending.
SumByDate(df, col) ==
  LET ds == SortedSeq({df.rows[i]["date"] : i \in 1..Len(df.rows)})
  IN  [k \in 1..Len(ds) |->
         [date |-> ds[k],
          value |-> SumCol(SelectSeq(df.rows, LAMBDA r : r["date"] = ds[k]), col)]]

\* df.groupby("Country/Region")[col].sum().reset_index(): one entry per
\* country present, countries in string order.
SumByCountry(df, col) ==
  LET cs == SortedCountries(CountryOptions(df))
  IN  [k \in 1..Len(cs) |->
         [country |-> cs[k],
          value |-> SumCol(SelectSeq(df.rows,
                                     LAMBDA r : r["Country/Region"] = cs[k]), col)]]

\* df[df["Country/Region"].isin(countries)]
RowsOfCountries(df, countries) ==
  MaskRows(df, {i \in 1..Len(df.rows) : df.rows[i]["Country/Region"] \in countries})

\* df[df["date"] == date]
RowsAtDate(df, date) ==
  MaskRows(df, {i \in 1..Len(df.rows) : df.rows[i]["date"] = date})

\* country_df.groupby("Country/Region")[["cases", "deaths", "recovered"]].sum()
\* .reset_index()
CountrySummary(df) ==
  LET cs == SortedCountries(CountryOptions(df))
      OfCountry(c) == SelectSeq(df.rows, LAMBDA r : r["Country/Region"] = c)
  IN  [k \in 1..Len(cs) |->
         [country |-> cs[k],
          cases |-> SumCol(OfCountry(cs[k]), "cases"),
          deaths |-> SumCol(OfCountry(cs[k]), "deaths"),
          recovered |-> SumCol(OfCountry(cs[k]), "recovered")]]

\* The orders of the elements of a set by ascending key; elements of equal
\* key come in every order.
RECURSIVE OrdersOf(_, _)
OrdersOf(S, key) ==
  IF S = {} THEN {<<>>}
  ELSE UNION {{<<e>> \o t : t \in OrdersOf(S \ {e}, key)} :
                e \in {x \in S : \A y \in S : key[x] <= key[y]}}

\* sort_values(by=col, ascending=False) with one key uses pandas' default
\* kind, quicksort, which is not stable: entries of equal value come out in
\* an order the build decides.  The set of orders it may produce.
SortValuesDescending(s) ==
  LET key == [i \in 1..Len(s) |-> 0 - s[i].value]
  IN  {[k \in 1..Len(s) |-> s[p[k]]] : p \in OrdersOf(1..Len(s), key)}

\* sort_values(by="date") of a frame's rows: one key, quicksort again.
SortValuesByDate(rows) ==
  LET key == [i \in 1..Len(rows) |-> rows[i]["date"]]
  IN  {[k \in 1..Len(rows) |-> rows[p[k]]] : p \in OrdersOf(1..Len(rows), key)}

\* sort_values(by=["Country/Region", "date"]): several keys go through
\* pandas' lexsort, which is stable; rows of equal keys keep their order.
SortByCountryDate(df) ==
  LET n == Len(df.rows)
      r == df.rows
      Before(i, j) ==
        \/ Rank(r[i]["Country/Region"]) < Rank(r[j]["Country/Region"])
        \/ /\ r[i]["Country/Region"] = r[j]["Country/Region"]
           /\ \/ r[i]["date"] < r[j]["date"]
              \/ r[i]["date"] = r[j]["date"] /\ i < j
      Pos(i) == 1 + Cardinality({j \in 1..n : Before(j, i)})
  IN  [columns |-> df.columns,
       rows |-> [k \in 1..n |-> r[CHOOSE i \in 1..n : Pos(i) = k]]]

\* groupby("Country/Region")[col].diff(): a Series over the frame's index
\* labels, in the frame's row order; the first row of each country has no
\* predecessor and gets NaN.
GroupDiff(df, col) ==
  LET r == df.rows
      First(k) == k = 1 \/ r[k - 1]["Country/Region"] # r[k]["Country/Region"]
  IN  [k \in 1..Len(r) |->
         [idx |-> r[k]["idx"],
          isna |-> First(k),
          val |-> IF First(k) THEN 0 ELSE r[k][col] - r[k - 1][col]]]

\* SeriesDiff with a difference below 0 raised to 0.
SeriesDiffClamped(rows, col) ==
  [k \in 1..Len(rows) |->
     [idx |-> rows[k]["idx"],
      isna |-> (k = 1),
      val |-> IF k = 1 \/ rows[k][col] < rows[k - 1][col] THEN 0
              ELSE rows[k][col] - rows[k - 1][col]]]

\* Series.diff() of one column of a list of rows.
SeriesDiff(rows, col) ==
  [k \in 1..Len(rows) |->
     [idx |-> rows[k]["idx"],
      isna |-> (k = 1),
      val |-> IF k = 1 THEN 0 ELSE rows[k][col] - rows[k - 1][col]]]

\* Series.fillna(0)
FillNa(series) ==
  [k \in 1..Len(series) |->
     [idx |-> series[k].idx,
      isna |-> FALSE,
      val |-> IF series[k].isna THEN 0 ELSE series[k].val]]

\* The value a Series holds for an index label.
AtLabel(series, label) ==
  series[CHOOSE k \in 1..Len(series) : series[k].idx = label].val

\* SetColumn assigning the Series' values by position, as with .values.
SetColumnByPosition(df, name, series) ==
  [columns |-> IF name \in Range(df.columns) THEN df.columns
               ELSE Append(df.columns, name),
   rows |-> [i \in 1..Len(df.rows) |-> (name :> series[i].val) @@ df.rows[i]]]

\* SetColumn adding a column of the name whether or not the frame has one.
SetColumnAppend(df, name, series) ==
  [columns |-> Append(df.columns, name),
   rows |-> [i \in 1..Len(df.rows) |->
               (name :> AtLabel(series, df.rows[i]["idx"])) @@ df.rows[i]]]

\* df[name] = series: the Series is aligned to the frame by index label; a
\* column of that name is overwritten in place, a new name is appended.
SetColumn(df, name, series) ==
  [columns |-> IF name \in Range(df.columns) THEN df.columns
               ELSE Append(df.columns, name),
   rows |-> [i \in 1..Len(df.rows) |->
               (name :> AtLabel(series, df.rows[i]["idx"])) @@ df.rows[i]]]

DailyName(m) == "daily_" \o m

\* DailyDelta sorting df itself (sort_values(..., inplace=True)) before it
\* takes the differences.
DailyDeltaSortInPlace(df, m) ==
  Bind(SortByCountryDate(df), LAMBDA global_df_sorted :
    Bind(FillNa(Bind(GroupDiff(global_df_sorted, m), LAMBDA d : d)),
         LAMBDA series : SetColumn(global_df_sorted, DailyName(m), series)))

\* Lines 148-149 and 182-185: the daily change of a metric as a column of df:
\* global_df_sorted = df.sort_values(by=["Country/Region", "date"]) and
\* df["daily_" + m] = global_df_sorted.groupby("Country/Region")[m].diff().fillna(0)
DailyDelta(df, m) ==
  Bind(SortByCountryDate(df), LAMBDA global_df_sorted :
    Bind(FillNa(Bind(GroupDiff(global_df_sorted, m), LAMBDA d : d)),
         LAMBDA series : SetColumn(df, DailyName(m), series)))

\* melt(id_vars="date", var_name="count_type", value_name="count"): the value
\* columns stacked one after the other.
Melt(rows, cols) ==
  [k \in 1..(Len(rows) * Len(cols)) |->
     LET c == cols[((k - 1) \div Len(rows)) + 1]
         r == rows[((k - 1) % Len(rows)) + 1]
     IN  [date |-> r["date"], count_type |-> c, count |-> r[c]]]


\* ------------------------------------------------------------------ input
Observation(d, c, cases, deaths, recovered) ==
  ("date" :> d) @@ ("Country/Region" :> c) @@ ("cases" :> cases)
  @@ ("deaths" :> deaths) @@ ("recovered" :> recovered)

\* The provider's observations of two countries: two provinces of A at date
\* 1, then A and B at date 2, A's cases corrected downwards.
World ==
  <<Observation(1, "A", 2, 1, 0), Observation(1, "A", 1, 0, 1),
    Observation(2, "A", 1, 1, 2), Observation(2, "B", 1, 0, 2)>>

\* The provider's observations of six countries at one date: C ties with B
\* on cases, and D, E and F tie.
WideWorld ==
  <<Observation(2, "A", 30, 5, 6), Observation(2, "B", 20, 4, 5),
    Observation(2, "C", 20, 3, 4), Observation(2, "D", 10, 2, 3),
    Observation(2, "E", 10, 1, 2), Observation(2, "F", 10, 0, 1)>>

Reverse(s) == [k \in 1..Len(s) |-> s[Len(s) + 1 - k]]

\* Tables of up to MaxRows different observations of World, of at least two
\* countries, in any order.
SmallTables ==
  LET n == Min2(MaxRows, Len(World))
  IN  {[k \in 1..n |-> World[f[k]]] : f \in
         {g \in [1..n -> 1..Len(World)] :
            /\ \A i, j \in 1..n : i # j => g[i] # g[j]
            /\ Cardinality({World[g[i]]["Country/Region"] : i \in 1..n}) >= 2}}

WideTables == {WideWorld, Reverse(WideWorld)}

BaseColumns == <<"date", "Country/Region", "cases", "deaths", "recovered">>

\* Lines 9-15: the provider's table with the columns the script keeps, under
\* a fresh RangeIndex.
LoadFrame(t) ==
  [columns |-> BaseColumns,
   rows |-> [i \in 1..Len(t) |-> ("idx" :> i) @@ t[i]]]

\* ---------------------------------------------------------------- actions
Unassigned ==
  /\ pc = "load"
  /\ global_df = NoFrame
  /\ start_date = NoDate
  /\ end_date = NoDate
  /\ sidebar_error = FALSE
  /\ case_type = ""
  /\ filtered_df = NoFrame
  /\ daily_metric = ""
  /\ fig = NoFig

Init == src \in SmallTables /\ Unassigned

InitWide == src \in WideTables /\ Unassigned

\* Load keeping a table that global_df already holds, as a session cache
\* would.
LoadKeepingFrame ==
  /\ pc = "load"
  /\ global_df' = IF global_df = NoFrame THEN LoadFrame(src) ELSE global_df
  /\ pc' = "dates"
  /\ UNCHANGED <<src, start_date, end_date, sidebar_error, case_type,
                 filtered_df, daily_metric, fig>>

\* Lines 8-15.
Load ==
  /\ pc = "load"
  /\ global_df' = LoadFrame(src)
  /\ pc' = "dates"
  /\ UNCHANGED <<src, start_date, end_date, sidebar_error, case_type,
                 filtered_df, daily_metric, fig>>

\* Lines 29-35: the two date inputs and the check of their order.
DateInputs ==
  /\ pc = "dates"
  /\ \E s \in Dates, e \in Dates :
       /\ start_date' = s
       /\ end_date' = e
       /\ sidebar_error' = (s > e)
  /\ pc' = "trend"
  /\ UNCHANGED <<src, global_df, case_type, filtered_df, daily_metric, fig>>

\* Lines 37-55: the case type, the filter, the sum by date and its line chart.
Trend ==
  /\ pc = "trend"
  /\ \E m \in Metrics :
       /\ case_type' = m
       /\ filtered_df' = FilterByDateRange(global_df, start_date, end_date)
       /\ fig' = [kind |-> "trend", data |-> SumByDate(filtered_df', m)]
  /\ pc' = "compare"
  /\ UNCHANGED <<src, global_df, start_date, end_date, sidebar_error,
                 daily_metric>>

\* Compare summing the rows of filtered_df in place of global_df's.
CompareFiltered ==
  /\ pc = "compare"
  /\ \E country1 \in CountryOptions(global_df), country2 \in CountryOptions(global_df) :
       LET country_df == RowsOfCountries(filtered_df, {country1, country2})
       IN  fig' = [kind |-> "compare", country1 |-> country1,
                   country2 |-> country2, data |-> CountrySummary(country_df)]
  /\ pc' = "topn"
  /\ UNCHANGED <<src, global_df, start_date, end_date, sidebar_error, case_type,
                 filtered_df, daily_metric>>

\* Lines 69-97: two countries, their total counters and the three pie charts.
Compare ==
  /\ pc = "compare"
  /\ \E country1 \in CountryOptions(global_df), country2 \in CountryOptions(global_df) :
       LET country_df == RowsOfCountries(global_df, {country1, country2})
       IN  fig' = [kind |-> "compare", country1 |-> country1,
                   country2 |-> country2, data |-> CountrySummary(country_df)]
  /\ pc' = "topn"
  /\ UNCHANGED <<src, global_df, start_date, end_date, sidebar_error, case_type,
                 filtered_df, daily_metric>>

\* Lines 107-134: the top n countries by a metric at the latest date.
TopN ==
  /\ pc = "topn"
  /\ \E n \in SliderValues, metric \in TopMetrics :
       LET latest_date == DateMax(global_df)
           latest_df == RowsAtDate(global_df, latest_date)
       IN  \E sorted \in SortValuesDescending(SumByCountry(latest_df, metric)) :
             fig' = [kind |-> "topn", n |-> n, metric |-> metric,
                     latest_date |-> latest_date, data |-> HeadN(sorted, n)]
  /\ pc' = "daily"
  /\ UNCHANGED <<src, global_df, start_date, end_date, sidebar_error, case_type,
                 filtered_df, daily_metric>>

\* Lines 144-164: the daily change of a metric, summed by date.
DailyGlobal ==
  /\ pc = "daily"
  /\ \E m \in Metrics :
       /\ daily_metric' = m
       /\ global_df' = DailyDelta(global_df, m)
       /\ fig' = [kind |-> "daily", data |-> SumByDate(global_df', DailyName(m))]
  /\ pc' = "dailytop"
  /\ UNCHANGED <<src, start_date, end_date, sidebar_error, case_type, filtered_df>>

\* Lines 174-209: the daily change again, for the top countries at the latest
\* date.
DailyTopN ==
  /\ pc = "dailytop"
  /\ \E m \in Metrics, top_n \in SliderValues :
       /\ daily_metric' = m
       /\ global_df' = DailyDelta(global_df, m)
       /\ LET latest_date == DateMax(global_df')
               latest_df == RowsAtDate(global_df', latest_date)
           IN  \E sorted \in SortValuesDescending(SumByCountry(latest_df, m)) :
                 LET top_n_countries ==
                       {e.country : e \in Range(HeadN(sorted, top_n))}
                 IN  fig' = [kind |-> "dailytop", top_n |-> top_n,
                             data |-> RowsOfCountries(global_df', top_n_countries)]
  /\ pc' = "country"
  /\ UNCHANGED <<src, start_date, end_date, sidebar_error, case_type, filtered_df>>

\* Lines 221-250: one country's series of a metric and its daily change.
CountryTrend ==
  /\ pc = "country"
  /\ \E selected_country \in CountryOptions(global_df), selected_metric \in Metrics :
       LET country_data == RowsOfCountries(global_df, {selected_country}).rows
           new == "new_" \o selected_metric
       IN  \E sorted \in SortValuesByDate(country_data) :
             LET diff == FillNa(SeriesDiff(sorted, selected_metric))
                 with_new == [k \in 1..Len(sorted) |->
                                (new :> diff[k].val) @@ sorted[k]]
             IN  fig' = [kind |-> "country", country |-> selected_country,
                         metric |-> selected_metric,
                         data |-> Melt(with_new, <<selected_metric, new>>)]
  /\ pc' = "map"
  /\ UNCHANGED <<src, global_df, start_date, end_date, sidebar_error, case_type,
                 filtered_df, daily_metric>>

\* Lines 252-264: the choropleth of global_df; the script ends.
WorldMap ==
  /\ pc = "map"
  /\ fig' = [kind |-> "map", data |-> global_df]
  /\ pc' = "done"
  /\ UNCHANGED <<src, global_df, start_date, end_date, sidebar_error, case_type,
                 filtered_df, daily_metric>>

\* A widget change: Streamlit runs the script again from its first line, in
\* a fresh namespace and on a cleared page.
Rerun ==
  /\ pc = "done"
  /\ pc' = "load"
  /\ global_df' = NoFrame
  /\ start_date' = NoDate
  /\ end_date' = NoDate
  /\ sidebar_error' = FALSE
  /\ case_type' = ""
  /\ filtered_df' = NoFrame
  /\ daily_metric' = ""
  /\ fig' = NoFig
  /\ UNCHANGED src

\* The same widget change with nothing assumed of the namespace: every name
\* keeps what the finished run left in it until the script assigns it again.
RerunStale ==
  /\ pc = "done"
  /\ pc' = "load"
  /\ UNCHANGED <<src, global_df, start_date, end_date, sidebar_error, case_type,
                 filtered_df, daily_metric, fig>>

Section ==
  \/ Load
  \/ DateInputs
  \/ Trend
  \/ Compare
  \/ TopN
  \/ DailyGlobal
  \/ DailyTopN
  \/ CountryTrend
  \/ WorldMap

Next == Section \/ Rerun

NextStale == Section \/ RerunStale

Spec == Init /\ [][Next]_vars

\* The six-country tables, for the top-n sections.
SpecWide == InitWide /\ [][Next]_vars

\* Reruns that inherit the finished run's names.
SpecStale == Init /\ [][NextStale]_vars

\* ----------------------------------------------------------- properties
\* The sections that have run when pc has one of these values.
AfterTrend == {"compare", "topn", "daily", "dailytop", "country", "map", "done"}
AfterDaily == {"dailytop", "country", "map", "done"}
AfterDailyTop == {"country", "map", "done"}

HasColumn(df, name) == name \in Range(df.columns)

SameCountry(t, i, j) == t[i]["Country/Region"] = t[j]["Country/Region"]

\* The rows of i's country that come before row i by date, rows of one date
\* by their place in the table.
PrecedingRows(t, i) ==
  {j \in 1..Len(t) :
     /\ j # i
     /\ SameCountry(t, i, j)
     /\ \/ t[j]["date"] < t[i]["date"]
        \/ t[j]["date"] = t[i]["date"] /\ j < i}

LastRow(t, S) ==
  CHOOSE j \in S : \A k \in S \ {j} :
    \/ t[k]["date"] < t[j]["date"]
    \/ t[k]["date"] = t[j]["date"] /\ k < j

\* The change of metric m at row i within the rows of i's country.
OwnGroupDelta(t, i, m) ==
  IF PrecedingRows(t, i) = {} THEN 0
  ELSE t[i][m] - t[LastRow(t, PrecedingRows(t, i))][m]

\* The rows of i's country at the latest date before row i's date.
PreviousDateRows(t, i) ==
  LET earlier == {j \in 1..Len(t) :
                    SameCountry(t, i, j) /\ t[j]["date"] < t[i]["date"]}
  IN  {j \in earlier : \A k \in earlier : t[k]["date"] <= t[j]["date"]}

\* C1: in every daily_<metric> column, a row's value is the row's metric
\* minus the metric of a row of the same country at that country's
\* immediately preceding date, and 0 when the country has no earlier date.
DailyDeltaFromPrecedingDate ==
  \A m \in Metrics :
    HasColumn(global_df, DailyName(m)) =>
      \A i \in 1..Len(src) :
        IF PreviousDateRows(src, i) = {}
        THEN global_df.rows[i][DailyName(m)] = 0
        ELSE \E j \in PreviousDateRows(src, i) :
               global_df.rows[i][DailyName(m)] = src[i][m] - src[j][m]

\* C6: the table that carries a daily_<metric> column has the input
\* table's rows in the input table's order, and each row carries the change
\* computed for that row within its country's rows ordered by date.
DailyDeltaKeepsRowOrder ==
  \A m \in Metrics :
    HasColumn(global_df, DailyName(m)) =>
      /\ Len(global_df.rows) = Len(src)
      /\ \A i \in 1..Len(src) :
           /\ global_df.rows[i]["idx"] = i
           /\ \A c \in Range(BaseColumns) : global_df.rows[i][c] = src[i][c]
           /\ global_df.rows[i][DailyName(m)] = OwnGroupDelta(src, i, m)

\* C6 witness: a table that is not in (country, date) order carries a
\* daily column with a change that is not 0.
UnsortedTableWithDelta ==
  /\ pc = "dailytop"
  /\ \E i \in 1..Len(src) : PrecedingRows(src, i) \ (1..i) # {}
  /\ \E i \in 1..Len(src) : global_df.rows[i][DailyName(daily_metric)] # 0

\* C5 as stated: once loaded, the source table global_df has the rows, the
\* row order, the columns and the values it was loaded with, whatever
\* aggregation has run.
SourceTableUnchanged ==
  pc # "load" => global_df = LoadFrame(src)

\* C5 amended: whatever aggregation has run, the source table has the rows
\* it was loaded with, in their order and under their index labels, and its
\* loaded columns hold their loaded values; the only change is that the two
\* daily sections add daily_<metric> columns after the loaded ones.
SourceRowsUnchanged ==
  pc # "load" =>
    /\ Len(global_df.rows) = Len(src)
    /\ \A i \in 1..Len(src) :
         /\ global_df.rows[i]["idx"] = i
         /\ \A c \in Range(BaseColumns) : global_df.rows[i][c] = src[i][c]
    /\ Len(global_df.columns) >= Len(BaseColumns)
    /\ \A k \in 1..Len(global_df.columns) :
         IF k <= Len(BaseColumns) THEN global_df.columns[k] = BaseColumns[k]
         ELSE \E m \in Metrics : global_df.columns[k] = DailyName(m)
    /\ pc \notin AfterDaily => global_df.columns = BaseColumns

\* C5 witness: both daily sections have run, with two metrics, on a table
\* that is not in (country, date) order.
TwoDailyColumnsAdded ==
  /\ pc = "country"
  /\ Len(global_df.columns) = Len(BaseColumns) + 2
  /\ \E i \in 1..Len(src) : PrecedingRows(src, i) \ (1..i) # {}

NoDuplicateColumns ==
  \A i, j \in 1..Len(global_df.columns) :
    i # j => global_df.columns[i] # global_df.columns[j]

\* C7: global_df never holds two columns of one name, and when the top-n
\* daily section applies the daily change of the metric the global daily
\* section applied, it leaves global_df as it was: the column is overwritten
\* with the values it held.
DailyDeltaOverwrites ==
  /\ [](NoDuplicateColumns)
  /\ [][(pc = "dailytop" /\ HasColumn(global_df, DailyName(daily_metric')))
          => global_df' = global_df]_vars

\* C7 witness: both daily sections have run with one metric, and the one
\* daily column holds a change that is not 0.
SameMetricAppliedTwice ==
  /\ pc = "country"
  /\ Len(global_df.columns) = Len(BaseColumns) + 1
  /\ \E i \in 1..Len(src) : global_df.rows[i][DailyName(daily_metric)] # 0

InRange(d) == start_date <= d /\ d <= end_date

\* C3: filtered_df holds exactly the rows of the table whose date lies
\* between the start date and the end date, both included, as they are in
\* the table and in the table's order, and filtering filtered_df by the same
\* two dates gives filtered_df again.
FilterKeepsExactlyTheRange ==
  pc \in AfterTrend =>
    LET f == filtered_df.rows
    IN  /\ filtered_df.columns = BaseColumns
        /\ \A k \in 1..Len(f) :
             /\ f[k]["idx"] \in 1..Len(src)
             /\ InRange(f[k]["date"])
             /\ \A c \in Range(BaseColumns) : f[k][c] = src[f[k]["idx"]][c]
        /\ \A i \in 1..Len(src) :
             InRange(src[i]["date"]) => \E k \in 1..Len(f) : f[k]["idx"] = i
        /\ \A k \in 1..(Len(f) - 1) : f[k]["idx"] < f[k + 1]["idx"]
        /\ FilterByDateRange(filtered_df, start_date, end_date) = filtered_df

\* C3 witness: a range of one date, the end date, has kept some rows of the
\* table and dropped others.
FilterKeptSomeRows ==
  /\ pc = "compare"
  /\ start_date = end_date
  /\ Len(filtered_df.rows) > 0
  /\ Len(filtered_df.rows) < Len(src)

\* C4: when the start date is later than the end date, the message is shown
\* and the date-range filter and the sum by date are not run on that range.
InvertedRangeIsNotAggregated ==
  start_date > end_date =>
    /\ sidebar_error
    /\ filtered_df = NoFrame
    /\ fig.kind # "trend"

\* C8: the country trend holds, for the selected country's series ordered by
\* date, a new_<metric> series of the same length whose first value is 0 and
\* whose every later value is the series' value minus the value before it,
\* below 0 when the series falls; the difference of an empty series is empty.
CountryDiffIsFirstDifference ==
  /\ FillNa(SeriesDiff(<<>>, "cases")) = <<>>
  /\ fig.kind = "country" =>
       LET n == Cardinality({i \in 1..Len(src) :
                               src[i]["Country/Region"] = fig.country})
           d == fig.data
       IN  /\ Len(d) = 2 * n
           /\ \A k \in 1..n :
                /\ d[k].count_type = fig.metric
                /\ d[n + k].count_type = "new_" \o fig.metric
                /\ d[n + k].date = d[k].date
                /\ d[n + k].count = IF k = 1 THEN 0
                                    ELSE d[k].count - d[k - 1].count
           /\ \A k \in 1..(n - 1) : d[k].date <= d[k + 1].date

\* C8 witness: a country trend with a difference below 0.
CountryDiffBelowZero ==
  /\ fig.kind = "country"
  /\ \E k \in 1..Len(fig.data) :
       fig.data[k].count_type = "new_" \o fig.metric /\ fig.data[k].count < 0

\* The sum of f over the set S.
RECURSIVE SumOver(_, _)
SumOver(S, f) ==
  IF S = {} THEN 0
  ELSE LET i == CHOOSE x \in S : TRUE IN f[i] + SumOver(S \ {i}, f)

Total(t, S, m) == SumOver(S, [i \in 1..Len(t) |-> t[i][m]])

RowsOf(t, c) == {i \in 1..Len(t) : t[i]["Country/Region"] = c}

RowsOn(t, d) == {i \in 1..Len(t) : t[i]["date"] = d}

LatestDate(t) ==
  CHOOSE d \in {t[i]["date"] : i \in 1..Len(t)} :
    \A i \in 1..Len(t) : t[i]["date"] <= d

CountriesOn(t, d) == {t[i]["Country/Region"] : i \in RowsOn(t, d)}

\* A country's sum of metric m over its rows at the table's latest date.
LatestTotal(t, c, m) == Total(t, RowsOf(t, c) \cap RowsOn(t, LatestDate(t)), m)

\* C10: whatever the start date and the end date, the country comparison
\* sums all the table's rows of the two countries, the top n are taken at the
\* table's latest date, the daily sums cover every date of the table, the
\* top-n daily chart holds every row of its countries, the country trend
\* holds every row of its country and the map holds every row of the table.
DateRangeReachesOnlyTheTrend ==
  /\ fig.kind = "compare" =>
       /\ {fig.data[k].country : k \in 1..Len(fig.data)}
            = {fig.country1, fig.country2}
       /\ \A k \in 1..Len(fig.data) : \A m \in Metrics :
            fig.data[k][m] = Total(src, RowsOf(src, fig.data[k].country), m)
  /\ fig.kind = "topn" =>
       /\ fig.latest_date = LatestDate(src)
       /\ \A k \in 1..Len(fig.data) :
            fig.data[k].value = LatestTotal(src, fig.data[k].country, fig.metric)
  /\ fig.kind = "daily" =>
       /\ {fig.data[k].date : k \in 1..Len(fig.data)}
            = {src[i]["date"] : i \in 1..Len(src)}
       /\ \A k \in 1..Len(fig.data) :
            fig.data[k].value =
              SumOver(RowsOn(src, fig.data[k].date),
                      [i \in 1..Len(src) |-> OwnGroupDelta(src, i, daily_metric)])
  /\ fig.kind = "dailytop" =>
       LET shown == {fig.data.rows[k]["Country/Region"] :
                       k \in 1..Len(fig.data.rows)}
       IN  /\ shown \subseteq CountriesOn(src, LatestDate(src))
           /\ \A i \in 1..Len(src) :
                src[i]["Country/Region"] \in shown =>
                  \E k \in 1..Len(fig.data.rows) :
                    /\ fig.data.rows[k]["idx"] = i
                    /\ fig.data.rows[k][DailyName(daily_metric)]
                         = OwnGroupDelta(src, i, daily_metric)
  /\ fig.kind = "country" =>
       \A i \in RowsOf(src, fig.country) :
         \E k \in 1..Len(fig.data) :
           /\ fig.data[k].count_type = fig.metric
           /\ fig.data[k].date = src[i]["date"]
           /\ fig.data[k].count = src[i][fig.metric]
  /\ fig.kind = "map" =>
       /\ Len(fig.data.rows) = Len(src)
       /\ \A i \in 1..Len(src) : \A c \in Range(BaseColumns) :
            fig.data.rows[i][c] = src[i][c]

\* C10 witness: the country comparison has summed rows of a date outside the
\* selected range.
ComparisonOutsideTheRange ==
  /\ fig.kind = "compare"
  /\ start_date = 1
  /\ end_date = 1
  /\ \E k \in 1..Len(fig.data) :
       \E i \in RowsOf(src, fig.data[k].country) : src[i]["date"] > end_date

\* The table as the script holds it right after its load.
Loaded ==
  [columns |-> BaseColumns,
   rows |-> [i \in 1..Len(src) |-> ("idx" :> i) @@ src[i]]]

FirstSeen(t, d) ==
  LET first == {i \in RowsOn(t, d) :
                  \A j \in RowsOn(t, d) : SameCountry(t, i, j) => i <= j}
      pos == SortedSeq(first)
  IN  [k \in 1..Len(pos) |-> t[pos[k]]["Country/Region"]]

\* The first n of the countries at the table's latest date, by descending
\* sum of metric m, countries of equal sum in first-seen order.
StableTopN(t, m, n) ==
  LET seen == FirstSeen(t, LatestDate(t))
      Before(i, j) ==
        \/ LatestTotal(t, seen[i], m) > LatestTotal(t, seen[j], m)
        \/ LatestTotal(t, seen[i], m) = LatestTotal(t, seen[j], m) /\ i < j
      Pos(i) == 1 + Cardinality({j \in 1..Len(seen) : Before(j, i)})
      sorted == [k \in 1..Len(seen) |->
                   LET c == seen[CHOOSE i \in 1..Len(seen) : Pos(i) = k]
                   IN  [country |-> c, value |-> LatestTotal(t, c, m)]]
  IN  SubSeq(sorted, 1, Min2(n, Len(sorted)))

\* C2 as stated: the top n hold the countries' sums of the metric at the
\* latest date, largest first, countries of equal sum in the order in which
\* they first appear in the table, cut to the first n.
TopNIsStable ==
  fig.kind = "topn" => fig.data = StableTopN(src, fig.metric, fig.n)

\* C2 amended: the top n hold, for min(n, number of countries at the latest
\* date) different countries of that date, each country's sum of the metric
\* over its rows at that date, largest first, and no country left out has a
\* larger sum than one that is held; countries of equal sum come in no
\* fixed order.  The top-n daily chart holds the rows of such a choice of
\* min(n, number of countries) countries.
TopNIsSortedAndCut ==
  LET at == CountriesOn(src, LatestDate(src))
  IN  /\ fig.kind = "topn" =>
           LET d == fig.data
           IN  /\ Len(d) = Min2(fig.n, Cardinality(at))
               /\ \A k \in 1..Len(d) :
                    /\ d[k].country \in at
                    /\ d[k].value = LatestTotal(src, d[k].country, fig.metric)
               /\ \A k, l \in 1..Len(d) : k # l => d[k].country # d[l].country
               /\ \A k \in 1..(Len(d) - 1) : d[k].value >= d[k + 1].value
               /\ \A c \in at \ {d[k].country : k \in 1..Len(d)} :
                    \A k \in 1..Len(d) :
                      LatestTotal(src, c, fig.metric) <= d[k].value
      /\ fig.kind = "dailytop" =>
           LET shown == {fig.data.rows[k]["Country/Region"] :
                           k \in 1..Len(fig.data.rows)}
           IN  /\ shown \subseteq at
               /\ Cardinality(shown) = Min2(fig.top_n, Cardinality(at))
               /\ \A c \in at \ shown : \A e \in shown :
                    LatestTotal(src, c, daily_metric)
                      <= LatestTotal(src, e, daily_metric)

\* C2 witness: the cut to n has left out a country whose sum equals the sum
\* of the last country held.
TopNCutsATie ==
  /\ fig.kind = "topn"
  /\ Len(fig.data) = fig.n
  /\ \E c \in CountriesOn(src, LatestDate(src)) :
       /\ \A k \in 1..Len(fig.data) : fig.data[k].country # c
       /\ LatestTotal(src, c, fig.metric) = fig.data[Len(fig.data)].value
====
